---- MODULE Spec2Model ----
(***************************************************************************)
(* SVRGTrainer.train (src/svrg.py) as a state machine.                     *)
(*                                                                         *)
(* The model (create_model) and the loss (loss_fn) are parameters of the   *)
(* trainer.  They are instantiated here with a model of one scalar         *)
(* parameter w and the per-batch mean loss                                 *)
(*      L(w, b) = b.q * w^2 / 2 + b.x * w                                  *)
(* (linear when b.q = 0, quadratic otherwise), so that every gradient is   *)
(* computed exactly.  Numbers are exact rationals <<num, den>>; the value  *)
(* <<0, 0>> stands for a tensor NaN.                                       *)
(***************************************************************************)
EXTENDS Integers, Sequences, FiniteSets, TLC

VARIABLES
    dataset,                \* train_loader: the bag of batches a pass yields
    num_warmup_epochs, num_outer_epochs, num_inner_epochs,
    inner_epoch_fraction, weight_decay, choose_random_iterate,
    pc,                     \* position in train / main
    err, err_line,          \* the exception that ended the run, and its line
    model, model_grad,      \* working model: parameter value and .grad
    target_model, target_grad, \* snapshot model: parameter value and .grad
    mu,                     \* full gradient of the snapshot model
    model_state_dicts,      \* candidate states of the current outer epoch
    inner_batches,
    metrics,                \* the list local to train
    main_metrics,           \* main's variable `metrics` (line 186)
    warmup_epoch, epoch, sub_epoch,
    remaining,              \* batches the running loader pass has yet to yield
    warmup_loss, train_loss, examples_seen,
    trajectory              \* history: every post-step working state of the run

cfgvars == <<dataset, num_warmup_epochs, num_outer_epochs, num_inner_epochs,
             inner_epoch_fraction, weight_decay, choose_random_iterate>>

vars == <<dataset, num_warmup_epochs, num_outer_epochs, num_inner_epochs,
          inner_epoch_fraction, weight_decay, choose_random_iterate,
          pc, err, err_line, model, model_grad, target_model, target_grad,
          mu, model_state_dicts, inner_batches, metrics, main_metrics,
          warmup_epoch, epoch, sub_epoch, remaining,
          warmup_loss, train_loss, examples_seen, trajectory>>

-----------------------------------------------------------------------------
(* Bounds *)

MaxBatches == 2
MaxWarmup == 1
MaxOuter == 2
MaxInner == 2
MaxElapsed == 1
MaxRunSteps == 10

-----------------------------------------------------------------------------
(* Exact arithmetic on the values the tensors hold *)

Abs(x) == IF x < 0 THEN -x ELSE x

RECURSIVE GCD(_, _)
GCD(a, b) == IF b = 0 THEN a ELSE GCD(b, a % b)

NaN == <<0, 0>>

IsNaN(a) == a[2] = 0

Rat(n, d) ==
    IF d = 0 THEN NaN
    ELSE LET g == GCD(Abs(n), Abs(d))
             s == IF d < 0 THEN -1 ELSE 1
         IN  <<(s * n) \div g, (s * d) \div g>>

FromInt(n) == <<n, 1>>

Zero == <<0, 1>>

RAdd(a, b) ==
    IF IsNaN(a) \/ IsNaN(b) THEN NaN
    ELSE LET g == GCD(a[2], b[2])
         IN  Rat(a[1] * (b[2] \div g) + b[1] * (a[2] \div g), a[2] * (b[2] \div g))

RNeg(a) == <<-a[1], a[2]>>

RSub(a, b) == RAdd(a, RNeg(b))

RMul(a, b) == IF IsNaN(a) \/ IsNaN(b) THEN NaN
              ELSE Rat(a[1] * b[1], a[2] * b[2])

RDiv(a, b) == IF IsNaN(a) \/ IsNaN(b) THEN NaN
              ELSE Rat(a[1] * b[2], a[2] * b[1])

RAbs(a) == <<Abs(a[1]), a[2]>>

-----------------------------------------------------------------------------
(* The parameters of a run *)

None == <<0, 0, 0>>

\* a batch: n examples, mean loss q * w^2 / 2 + x * w
BatchKinds == { [n |-> 1, q |-> 1, x |-> 1], [n |-> 2, q |-> 0, x |-> -1] }

\* A pass over the loader yields every batch once, in an order the loader
\* chooses (main builds it with shuffle=True); a dataset is the bag of its
\* batches: the number of batches of each kind
RECURSIVE BagSize(_, _)
BagSize(bag, kinds) ==
    IF kinds = {} THEN 0
    ELSE LET k == CHOOSE k \in kinds : TRUE
         IN  bag[k] + BagSize(bag, kinds \ {k})

Datasets == { ds \in [BatchKinds -> 0..MaxBatches] :
                BagSize(ds, BatchKinds) <= MaxBatches }

EmptyBag == [k \in BatchKinds |-> 0]

\* --inner_epoch_fraction: absent, or a float (halves are exact in binary)
Fractions == { None, <<-1, 2>>, <<0, 1>>, <<1, 2>>, <<1, 1>>, <<3, 2>> }

WeightDecays == { Zero, FromInt(1) }

learning_rate == FromInt(1)

warmup_learning_rate == FromInt(1)

\* create_model() is called twice: the two models start from their own values
InitialModel == FromInt(2)

InitialTargetModel == FromInt(1)

ElapsedValues == 0..MaxElapsed

\* main's `metrics` before trainer.train has returned
Unassigned == [assigned |-> FALSE, value |-> << >>]

\* len(train_loader)
NumBatches(ds) == BagSize(ds, BatchKinds)

\* len(train_loader.dataset)
NumExamples(ds) == BagSize([k \in BatchKinds |-> ds[k] * k.n], BatchKinds)

\* the optimizer steps a run of these epochs over these batches can take
RunSteps(ds, warmups, outers, inners) ==
    (warmups + outers * inners) * NumBatches(ds)

\* the batches the loader can yield next
Pending(bag) == { k \in BatchKinds : bag[k] > 0 }

Yield(bag, k) == [bag EXCEPT ![k] = @ - 1]

-----------------------------------------------------------------------------
(* The model, the loss and the gradient engine *)

\* loss_fn(model(data), label): the mean loss of batch b at parameter w
Loss(w, b) ==
    RAdd(RMul(RMul(FromInt(b.q), RMul(w, w)), <<1, 2>>), RMul(FromInt(b.x), w))

\* d Loss(w, b) / d w
LossGrad(w, b) == RAdd(RMul(FromInt(b.q), w), FromInt(b.x))

\* zero_grad(): the accumulated gradient is dropped
ZeroGradSkipped(g) == g

ZeroGrad(g) == Zero

\* backward(): the new gradient is accumulated into .grad
Backward(acc, g) == RAdd(acc, g)

\* gradient of aux_loss = model_loss - dot(c, model_weights), c detached
AuxLossGradUncorrected(w, b, c) == LossGrad(w, b)

AuxLossGrad(w, b, c) == RSub(LossGrad(w, b), c)

\* torch.optim.SGD.step with weight decay: p -= lr * (grad + weight_decay * p)
SGDStep(w, g, lr, wd) == RSub(w, RMul(lr, RAdd(g, RMul(wd, w))))

\* utils.calculate_full_gradient: the example-weighted mean of the batch
\* gradients; on an empty dataset the division of tensors yields NaN
FullGradient(w, ds) ==
    LET RECURSIVE Sum(_)
        Sum(kinds) ==
            IF kinds = {} THEN Zero
            ELSE LET k == CHOOSE k \in kinds : TRUE
                 IN  RAdd(RMul(LossGrad(w, k), FromInt(ds[k] * k.n)),
                          Sum(kinds \ {k}))
    IN  RDiv(Sum(BatchKinds), FromInt(NumExamples(ds)))

\* utils.calculate_full_gradient_norm: the Euclidean norm of the full gradient
FullGradientNorm(w, ds) == RAbs(FullGradient(w, ds))

\* int(x): truncation towards zero
PyInt(r) == IF r[1] >= 0 THEN r[1] \div r[2] ELSE -((-r[1]) \div r[2])

InnerBatches(nb, fraction) ==
    IF fraction = None THEN nb ELSE PyInt(RMul(FromInt(nb), fraction))

\* `if batch_num >= inner_batches: break`
BreakSubEpochStrict(batch_num, limit) == batch_num > limit

BreakSubEpoch(batch_num, limit) == batch_num >= limit

\* load_state_dict copies the values of src into the parameters of dst
LoadStateDictNoop(dst, src) == dst

LoadStateDict(dst, src) == src

\* model_state_dicts = []
NewCandidateListKept(old) == old

NewCandidateList(old) == << >>

\* model_state_dicts.append(copy.deepcopy(model.state_dict())); without the
\* deep copy every stored dict would hold the live parameter tensors
AppendAlias(states, w) == [i \in 1..(Len(states) + 1) |-> w]

AppendCopy(states, w) == Append(states, w)

\* random.choice(model_state_dicts) / model_state_dicts[-1]
ChoiceIndicesFirst(n, random) == IF random THEN 1..n ELSE {1}

ChoiceIndices(n, random) == IF random THEN 1..n ELSE {n}

\* metrics.append(record)
MetricsPrepend(ms, r) == <<r>> \o ms

MetricsAppend(ms, r) == Append(ms, r)

\* warmup_loss / len(train_loader.dataset), train_loss / examples_seen
AvgLossNeverRaises(count) == FALSE

AvgLossRaises(count) == count = 0

\* len(train_loader.dataset) / elapsed_time
ThroughputRaises(elapsed) == elapsed = 0

Last(s) == s[Len(s)]

-----------------------------------------------------------------------------
(* Initial state: train has been entered, the two models are created *)

Init ==
    /\ dataset \in Datasets
    /\ num_warmup_epochs \in 0..MaxWarmup
    /\ num_outer_epochs \in 0..MaxOuter
    /\ num_inner_epochs \in 0..MaxInner
    /\ inner_epoch_fraction \in Fractions
    /\ weight_decay \in WeightDecays
    /\ choose_random_iterate \in BOOLEAN
    /\ RunSteps(dataset, num_warmup_epochs, num_outer_epochs, num_inner_epochs)
           <= MaxRunSteps
    /\ pc = "warmup"
    /\ err = "none"
    /\ err_line = 0
    /\ model = InitialModel
    /\ model_grad = Zero
    /\ target_model = InitialTargetModel
    /\ target_grad = Zero
    /\ mu = Zero
    /\ model_state_dicts = << >>
    /\ inner_batches = 0
    /\ metrics = << >>
    /\ main_metrics = Unassigned
    /\ warmup_epoch = 0
    /\ epoch = 0
    /\ sub_epoch = 0
    /\ remaining = EmptyBag
    /\ warmup_loss = Zero
    /\ train_loss = Zero
    /\ examples_seen = 0
    /\ trajectory = << >>

\* an exception leaves train: nothing is returned to main
Raise(e, line) ==
    /\ pc' = "aborted"
    /\ err' = e
    /\ err_line' = line

NoError == UNCHANGED <<err, err_line>>

-----------------------------------------------------------------------------
(* Warmup, lines 35-55 *)

\* line 35-37: the next warmup epoch begins
WarmupEpochStart ==
    /\ pc = "warmup"
    /\ warmup_epoch < num_warmup_epochs
    /\ warmup_epoch' = warmup_epoch + 1
    /\ warmup_loss' = Zero
    /\ remaining' = dataset
    /\ pc' = "warmup_batch"
    /\ NoError
    /\ UNCHANGED <<cfgvars, model, model_grad, target_model, target_grad, mu,
                   model_state_dicts, inner_batches, metrics, main_metrics,
                   epoch, sub_epoch, train_loss, examples_seen, trajectory>>

\* line 35: the warmup loop is exhausted
WarmupDone ==
    /\ pc = "warmup"
    /\ warmup_epoch = num_warmup_epochs
    /\ pc' = "outer"
    /\ NoError
    /\ UNCHANGED <<cfgvars, model, model_grad, target_model, target_grad, mu,
                   model_state_dicts, inner_batches, metrics, main_metrics,
                   warmup_epoch, epoch, sub_epoch, remaining, warmup_loss,
                   train_loss, examples_seen, trajectory>>

\* lines 38-45: one SGD step of the snapshot model on the next batch the
\* loader yields (the loader decides the order)
WarmupStep ==
    /\ pc = "warmup_batch"
    /\ \E b \in Pending(remaining) :
         LET g == Backward(ZeroGrad(target_grad), LossGrad(target_model, b))
         IN  /\ target_grad' = g
             /\ target_model' = SGDStep(target_model, g, warmup_learning_rate,
                                        weight_decay)
             /\ warmup_loss' = RAdd(warmup_loss,
                                    RMul(Loss(target_model, b), FromInt(b.n)))
             /\ remaining' = Yield(remaining, b)
    /\ pc' = "warmup_batch"
    /\ NoError
    /\ UNCHANGED <<cfgvars, model, model_grad, mu, model_state_dicts,
                   inner_batches, metrics, main_metrics, warmup_epoch, epoch,
                   sub_epoch, train_loss, examples_seen, trajectory>>

\* lines 46-55: the epoch's record
WarmupEpochEnd ==
    /\ pc = "warmup_batch"
    /\ Pending(remaining) = {}
    /\ IF AvgLossRaises(NumExamples(dataset))
       THEN /\ Raise("ZeroDivisionError", 46)
            /\ UNCHANGED <<metrics, target_grad>>
       ELSE /\ target_grad' = Zero
            /\ \E elapsed \in ElapsedValues :
                 IF ThroughputRaises(elapsed)
                 THEN /\ Raise("ZeroDivisionError", 50)
                      /\ UNCHANGED metrics
                 ELSE /\ metrics' = MetricsAppend(metrics,
                            [warmup_epoch |-> warmup_epoch,
                             train_loss |-> RDiv(warmup_loss,
                                                 FromInt(NumExamples(dataset))),
                             grad_norm |-> FullGradientNorm(target_model, dataset)])
                      /\ pc' = "warmup"
                      /\ NoError
    /\ UNCHANGED <<cfgvars, model, model_grad, target_model, mu,
                   model_state_dicts, inner_batches, main_metrics, warmup_epoch,
                   epoch, sub_epoch, remaining, warmup_loss, train_loss,
                   examples_seen, trajectory>>

-----------------------------------------------------------------------------
(* Outer epochs, lines 57-131 *)

\* lines 57-64: the next outer epoch begins with the full gradient of the
\* snapshot model (the estimator clears the gradients it accumulated)
ComputeSnapshotGradient ==
    /\ pc = "outer"
    /\ epoch < num_outer_epochs
    /\ epoch' = epoch + 1
    /\ mu' = FullGradient(target_model, dataset)
    /\ target_grad' = Zero
    /\ pc' = "reset"
    /\ NoError
    /\ UNCHANGED <<cfgvars, model, model_grad, target_model, model_state_dicts,
                   inner_batches, metrics, main_metrics, warmup_epoch,
                   sub_epoch, remaining, warmup_loss, train_loss, examples_seen,
                   trajectory>>

\* lines 67-73: the working model is set to the snapshot model, the candidate
\* list and the length of a sub-epoch are set up
ResetWorkingModel ==
    /\ pc = "reset"
    /\ model' = LoadStateDict(model, target_model)
    /\ model_state_dicts' = NewCandidateList(model_state_dicts)
    /\ inner_batches' = InnerBatches(NumBatches(dataset), inner_epoch_fraction)
    /\ sub_epoch' = 0
    /\ pc' = "inner"
    /\ NoError
    /\ UNCHANGED <<cfgvars, model_grad, target_model, target_grad, mu, metrics,
                   main_metrics, warmup_epoch, epoch, remaining, warmup_loss,
                   train_loss, examples_seen, trajectory>>

\* lines 74-77: the next sub-epoch begins
SubEpochStart ==
    /\ pc = "inner"
    /\ sub_epoch < num_inner_epochs
    /\ sub_epoch' = sub_epoch + 1
    /\ train_loss' = Zero
    /\ examples_seen' = 0
    /\ remaining' = dataset
    /\ pc' = "inner_batch"
    /\ NoError
    /\ UNCHANGED <<cfgvars, model, model_grad, target_model, target_grad, mu,
                   model_state_dicts, inner_batches, metrics, main_metrics,
                   warmup_epoch, epoch, warmup_loss, trajectory>>

\* lines 78-113: one corrected step of the working model on the next batch
InnerStep ==
    /\ pc = "inner_batch"
    /\ \E b \in Pending(remaining) :
         LET cleared == ZeroGrad(model_grad)
             target_model_grad ==
                 Backward(ZeroGrad(target_grad), LossGrad(target_model, b))
             g == Backward(cleared,
                           AuxLossGrad(model, b, RSub(target_model_grad, mu)))
             stepped == SGDStep(model, g, learning_rate, weight_decay)
             batch_num == NumBatches(dataset) - NumBatches(remaining) + 1
         IN  /\ target_grad' = target_model_grad
             /\ model_grad' = g
             /\ model' = stepped
             /\ train_loss' = RAdd(train_loss, RMul(Loss(model, b), FromInt(b.n)))
             /\ examples_seen' = examples_seen + b.n
             /\ model_state_dicts' = AppendCopy(model_state_dicts, stepped)
             /\ trajectory' = Append(trajectory,
                    [epoch |-> epoch, sub_epoch |-> sub_epoch,
                     batch |-> b, w |-> stepped])
             /\ remaining' = Yield(remaining, b)
             /\ pc' = IF BreakSubEpoch(batch_num, inner_batches)
                      THEN "inner_end" ELSE "inner_batch"
    /\ NoError
    /\ UNCHANGED <<cfgvars, target_model, mu, inner_batches, metrics,
                   main_metrics, warmup_epoch, epoch, sub_epoch, warmup_loss>>

\* lines 114-125: the sub-epoch's record, after the break or after the loader
\* is exhausted
SubEpochEnd ==
    /\ \/ pc = "inner_end"
       \/ pc = "inner_batch" /\ Pending(remaining) = {}
    /\ IF AvgLossRaises(examples_seen)
       THEN /\ Raise("ZeroDivisionError", 114)
            /\ UNCHANGED <<metrics, model_grad>>
       ELSE /\ model_grad' = Zero
            /\ \E elapsed \in ElapsedValues :
                 IF ThroughputRaises(elapsed)
                 THEN /\ Raise("ZeroDivisionError", 118)
                      /\ UNCHANGED metrics
                 ELSE /\ metrics' = MetricsAppend(metrics,
                            [outer_epoch |-> epoch,
                             inner_epoch |-> sub_epoch,
                             train_loss |-> RDiv(train_loss, FromInt(examples_seen)),
                             grad_norm |-> FullGradientNorm(model, dataset)])
                      /\ pc' = "inner"
                      /\ NoError
    /\ UNCHANGED <<cfgvars, model, target_model, target_grad, mu,
                   model_state_dicts, inner_batches, main_metrics, warmup_epoch,
                   epoch, sub_epoch, remaining, warmup_loss, train_loss,
                   examples_seen, trajectory>>

\* lines 127-131: the next snapshot is loaded from the candidates
SelectNextSnapshot ==
    /\ pc = "inner"
    /\ sub_epoch = num_inner_epochs
    /\ IF model_state_dicts = << >>
       THEN /\ Raise("IndexError", IF choose_random_iterate THEN 128 ELSE 130)
            /\ UNCHANGED target_model
       ELSE /\ \E i \in ChoiceIndices(Len(model_state_dicts),
                                      choose_random_iterate) :
                 target_model' = LoadStateDict(target_model, model_state_dicts[i])
            /\ pc' = "outer"
            /\ NoError
    /\ UNCHANGED <<cfgvars, model, model_grad, target_grad, mu,
                   model_state_dicts, inner_batches, metrics, main_metrics,
                   warmup_epoch, epoch, sub_epoch, remaining, warmup_loss,
                   train_loss, examples_seen, trajectory>>

\* line 132 and line 186: train returns metrics to main
TrainReturn ==
    /\ pc = "outer"
    /\ epoch = num_outer_epochs
    /\ main_metrics' = [assigned |-> TRUE, value |-> metrics]
    /\ pc' = "done"
    /\ NoError
    /\ UNCHANGED <<cfgvars, model, model_grad, target_model, target_grad, mu,
                   model_state_dicts, inner_batches, metrics, warmup_epoch,
                   epoch, sub_epoch, remaining, warmup_loss, train_loss,
                   examples_seen, trajectory>>

Next ==
    \/ WarmupEpochStart
    \/ WarmupStep
    \/ WarmupEpochEnd
    \/ WarmupDone
    \/ ComputeSnapshotGradient
    \/ ResetWorkingModel
    \/ SubEpochStart
    \/ InnerStep
    \/ SubEpochEnd
    \/ SelectNextSnapshot
    \/ TrainReturn

Spec == Init /\ [][Next]_vars

TypeOK == pc \in {"warmup", "warmup_batch", "outer", "reset", "inner",
                  "inner_batch", "inner_end", "done", "aborted"}

-----------------------------------------------------------------------------
(* Properties *)

IsPrefix(s, t) == Len(s) <= Len(t) /\ \A i \in 1..Len(s) : s[i] = t[i]

Min(a, b) == IF a <= b THEN a ELSE b

Max(a, b) == IF a >= b THEN a ELSE b

\* the step at hand is an inner step (it records a post-step state)
InnerStepTaken ==
    pc = "inner_batch" /\ Len(trajectory') = Len(trajectory) + 1

\* the batch that step consumed
StepBatch == CHOOSE b \in BatchKinds : remaining'[b] < remaining[b]

\* grad L_working(w, b) - (g_snapshot(b) - mu)
VarianceReducedGradient(w, snapshot, m, b) ==
    RSub(LossGrad(w, b), RSub(LossGrad(snapshot, b), m))

\* the control is at SelectNextSnapshot
AtSelect == pc = "inner" /\ sub_epoch = num_inner_epochs

\* C1: every inner step applies to the working model the gradient
\* grad L_working(w, b) - (g_snapshot(b) - mu), with g_snapshot(b) the snapshot
\* model's gradient on the batch b of that step alone and mu the full gradient
\* of the snapshot of this outer epoch, and moves w to
\* w - lr * (that gradient + weight_decay * w).
C1_CorrectedStep ==
    [][InnerStepTaken =>
        /\ mu = FullGradient(target_model, dataset)
        /\ model_grad' =
             VarianceReducedGradient(model, target_model, mu, StepBatch)
        /\ model' = RSub(model, RMul(learning_rate,
             RAdd(VarianceReducedGradient(model, target_model, mu, StepBatch),
                  RMul(weight_decay, model))))]_vars

\* a later step of an outer epoch has acted on a working model that has left
\* the snapshot, with a non-zero gradient left from the step before
C1_Witness ==
    /\ pc \in {"inner_batch", "inner_end"}
    /\ Len(model_state_dicts) >= 2
    /\ model # target_model
    /\ model_state_dicts[Len(model_state_dicts) - 1] # target_model
    /\ model_grad # Zero
    /\ target_grad # Zero

\* right after ResetWorkingModel, before the first inner step
AfterResetBeforeFirstStep ==
    \/ pc = "inner" /\ sub_epoch = 0
    \/ pc = "inner_batch" /\ sub_epoch = 1 /\ remaining = dataset

\* C2: in every outer epoch, after ResetWorkingModel and before the first
\* inner step, the working model equals the snapshot model and mu is the full
\* gradient of those same snapshot values.
C2_ResetEqualsSnapshot ==
    AfterResetBeforeFirstStep =>
        /\ model = target_model
        /\ mu = FullGradient(target_model, dataset)

\* the reset of a second outer epoch, whose snapshot the first one selected
C2_Witness ==
    /\ pc = "inner"
    /\ sub_epoch = 0
    /\ epoch = 2
    /\ target_model # InitialTargetModel
    /\ model = target_model
    /\ Last(trajectory).w # target_model

\* the inner loop of an outer epoch has run all its sub-epochs
InnerLoopFinished ==
    \/ AtSelect
    \/ pc = "outer" /\ epoch >= 1
    \/ pc = "done" /\ epoch >= 1

\* a sub-epoch has left its batch loop
SubEpochLoopLeft ==
    \/ pc = "inner_end"
    \/ pc = "inner_batch" /\ Pending(remaining) = {}

\* batches_per_sub_epoch as the claim defines it
BatchesPerSubEpoch ==
    InnerBatches(NumBatches(dataset), inner_epoch_fraction)

\* C3 (as stated): at the end of every outer epoch the number of candidate
\* states is num_inner_epochs * batches_per_sub_epoch, for every
\* inner_epoch_fraction.
C3_Original ==
    InnerLoopFinished =>
        Len(model_state_dicts) = num_inner_epochs * BatchesPerSubEpoch

\* the number of batches a sub-epoch processes: the stop test runs after a
\* batch has been processed, and the loader yields no more than it has
ProcessedPerSubEpoch ==
    Min(NumBatches(dataset), Max(1, BatchesPerSubEpoch))

\* C3 (amended): at the end of every outer epoch the number of candidate
\* states is num_inner_epochs * min(batch_count, max(1, batches_per_sub_epoch)),
\* and every sub-epoch leaves its batch loop after that many batches.
C3_CandidateCount ==
    /\ InnerLoopFinished =>
         Len(model_state_dicts) = num_inner_epochs * ProcessedPerSubEpoch
    /\ SubEpochLoopLeft =>
         NumBatches(dataset) - NumBatches(remaining) = ProcessedPerSubEpoch

\* an outer epoch ended with a fraction that truncates to 0 batches
C3_Witness ==
    /\ pc = "outer"
    /\ epoch >= 1
    /\ inner_batches = 0
    /\ inner_epoch_fraction # None
    /\ NumBatches(dataset) = 2
    /\ num_inner_epochs = 2
    /\ Len(model_state_dicts) = 2

\* C4 (as stated): with choose_random_iterate=False the selection always
\* succeeds, for all num_inner_epochs and batch counts, and loads the last
\* candidate state, which is the working model after its final inner step.
C4_Original ==
    [][(AtSelect /\ ~choose_random_iterate) =>
        /\ pc' = "outer"
        /\ target_model' = Last(model_state_dicts)
        /\ target_model' = model]_vars

\* C4 (amended): with choose_random_iterate=False, a selection over a
\* non-empty candidate list loads its last element, which is the working
\* model after its final inner step; the list is empty exactly when
\* num_inner_epochs = 0, and the selection then fails with an IndexError.
C4_LastIterate ==
    [][(AtSelect /\ ~choose_random_iterate) =>
        IF model_state_dicts = << >>
        THEN /\ num_inner_epochs = 0
             /\ pc' = "aborted"
             /\ err' = "IndexError"
             /\ target_model' = target_model
        ELSE /\ num_inner_epochs >= 1
             /\ pc' = "outer"
             /\ target_model' = Last(model_state_dicts)
             /\ target_model' = model]_vars

\* the last of several differing candidates has become the snapshot
C4_Witness ==
    /\ pc = "outer"
    /\ epoch >= 1
    /\ ~choose_random_iterate
    /\ Len(model_state_dicts) >= 2
    /\ model_state_dicts[1] # Last(model_state_dicts)
    /\ target_model = Last(model_state_dicts)

\* the post-step working states recorded during the current outer epoch
ThisEpochStates ==
    LET t == SelectSeq(trajectory, LAMBDA r : r.epoch = epoch)
    IN  [i \in 1..Len(t) |-> t[i].w]

Range(s) == { s[i] : i \in 1..Len(s) }

\* every value a model has held that the state still knows of
KnownStates ==
    {model, target_model, InitialModel, InitialTargetModel}
        \cup { trajectory[i].w : i \in 1..Len(trajectory) }
        \cup Range(model_state_dicts)

\* C5: with choose_random_iterate=True the states that can become the next
\* snapshot are exactly the post-step states recorded during this outer
\* epoch, over all its sub-epochs: each of them can be chosen and nothing
\* else can.
C5_RandomIterateChoices ==
    (AtSelect /\ choose_random_iterate) =>
        /\ model_state_dicts = ThisEpochStates
        /\ \A v \in KnownStates :
             (ENABLED (SelectNextSnapshot /\ pc' = "outer" /\ target_model' = v))
                 <=> v \in Range(ThisEpochStates)

\* the selection of a second outer epoch, with earlier states that are not
\* among its candidates
C5_Witness ==
    /\ AtSelect
    /\ choose_random_iterate
    /\ epoch = 2
    /\ Len(model_state_dicts) >= 2
    /\ model_state_dicts[1] # model_state_dicts[2]
    /\ \E i \in 1..Len(trajectory) :
         trajectory[i].epoch = 1 /\ trajectory[i].w \notin Range(model_state_dicts)
    /\ InitialTargetModel \notin Range(model_state_dicts)

\* what identifies a record: its kind and its epoch indices
Tag(r) ==
    IF "warmup_epoch" \in DOMAIN r
    THEN <<"warmup", r.warmup_epoch, 0>>
    ELSE <<"inner", r.outer_epoch, r.inner_epoch>>

Tags(ms) == [i \in 1..Len(ms) |-> Tag(ms[i])]

ExpectedTags ==
    [i \in 1..num_warmup_epochs |-> <<"warmup", i, 0>>]
    \o [j \in 1..(num_outer_epochs * num_inner_epochs) |->
          <<"inner", ((j - 1) \div num_inner_epochs) + 1,
                     ((j - 1) % num_inner_epochs) + 1>>]

C7_TimingNeverInfluences ==
    ~(pc = "aborted" /\ err_line \in {50, 118})

\* C8: with an empty dataset and at least one warmup epoch, the first warmup
\* epoch fails at its average loss with a division by zero; no record is
\* appended and no outer epoch starts.
C8_EmptyDatasetWarmup ==
    (NumExamples(dataset) = 0 /\ num_warmup_epochs >= 1) =>
        /\ metrics = << >>
        /\ epoch = 0
        /\ warmup_epoch <= 1
        /\ \/ pc = "warmup" /\ warmup_epoch = 0
           \/ pc = "warmup_batch" /\ warmup_epoch = 1
           \/ /\ pc = "aborted"
              /\ err = "ZeroDivisionError"
              /\ err_line = 46
              /\ warmup_epoch = 1

\* the run over an empty dataset has aborted in its first warmup epoch
C8_Witness ==
    /\ NumBatches(dataset) = 0
    /\ NumExamples(dataset) = 0
    /\ num_warmup_epochs >= 1
    /\ num_outer_epochs >= 1
    /\ pc = "aborted"
    /\ err_line = 46

\* C9: when a run aborts after records have been appended, those records
\* remain available to the caller of train.
C9_PartialMetricsRetained ==
    (pc = "aborted" /\ Len(metrics) >= 1) =>
        /\ main_metrics.assigned
        /\ main_metrics.value = metrics

\* the control is inside an outer epoch, after ComputeSnapshotGradient
InsideOuterEpoch == pc \in {"reset", "inner", "inner_batch", "inner_end"}

\* C10: from ComputeSnapshotGradient until SelectNextSnapshot the snapshot
\* model's parameters and mu do not change, and no step changes a candidate
\* state stored before it.
C10_SnapshotFrame ==
    [][(InsideOuterEpoch /\ ~AtSelect) =>
        /\ target_model' = target_model
        /\ mu' = mu
        /\ mu' = FullGradient(target_model', dataset)
        /\ (pc # "reset" => IsPrefix(model_state_dicts, model_state_dicts'))]_vars

\* inner steps have moved the working model away from the snapshot and from
\* the candidates stored before
C10_Witness ==
    /\ pc \in {"inner_batch", "inner_end", "inner"}
    /\ Len(model_state_dicts) >= 2
    /\ model_state_dicts[1] # model_state_dicts[2]
    /\ model # target_model
    /\ model_state_dicts[1] # target_model

====
